---- MODULE Spec2Model ----
(***************************************************************************)
(* CHIP-8 CPU core of src/src/main.rs: the CPU struct (registers,          *)
(* position_in_memory, memory, stack, stack_pointer), read_opcode, the     *)
(* run loop with its decode and dispatch, and the handlers add_xy, call    *)
(* and ret.  One step of the model is one iteration of the loop in run().  *)
(* A Rust panic (panic!, todo!, a failed array bounds check) ends the run: *)
(* status becomes "Faulted" and fault names the panic; the CPU fields keep *)
(* the values they had when the panic was raised.                          *)
(***************************************************************************)
EXTENDS Integers, Naturals, Sequences, FiniteSets, TLC

VARIABLES
    registers,           \* registers: [u8; 16]
    position_in_memory,  \* position_in_memory: usize
    memory,              \* memory: [u8; 0x1000], kept as the bytes the loader wrote; every other byte is 0
    stack,               \* stack: [u16; 16]
    stack_pointer,       \* stack_pointer: usize
    opcode,              \* the local `opcode` of run(): the last word fetched
    status,              \* "Running", "Halted" (run returned) or "Faulted" (run panicked)
    fault,               \* which panic ended the run, "None" while there is none
    init_registers,      \* history: the register file as the loader left it
    entry_point,         \* history: position_in_memory as the loader left it
    call_site,           \* history: call_site[h] is the address of the CALL that last wrote stack[h]
    odd_call_taken       \* history: some CALL executed so far had an odd address operand

vars == <<registers, position_in_memory, memory, stack, stack_pointer,
          opcode, status, fault, init_registers, entry_point, call_site,
          odd_call_taken>>

-----------------------------------------------------------------------------
(* Sizes fixed by the CPU struct. *)

MemSize == 4096

NumRegisters == 16

StackSize == 16

FlagRegister == 15

U8 == 256

U16 == 65536

NoOpcode == -1

-----------------------------------------------------------------------------
(* Bounds of the model. *)

\* length, in instruction words, of the generated programs
ProgLen == 3

\* register values the loader is allowed to write
ByteSamples == {0, 1, 5, 10, 128, 255}

\* operand values of the generated ADD programs
AddSamples == {0, 1, 128, 255}

\* nibble values of the generated one-word programs
NibbleSamples == {0, 1, 2, 4, 8, 14, 15}

-----------------------------------------------------------------------------
(* Bit operations on unsigned integers, as Rust computes them. *)

RECURSIVE BitAnd(_, _)
\* a & b
BitAnd(a, b) ==
    IF a = 0 \/ b = 0 THEN 0
    ELSE (a % 2) * (b % 2) + 2 * BitAnd(a \div 2, b \div 2)

RECURSIVE BitOr(_, _)
\* a | b
BitOr(a, b) ==
    IF a = 0 THEN b
    ELSE IF b = 0 THEN a
    ELSE (IF a % 2 = 1 \/ b % 2 = 1 THEN 1 ELSE 0) + 2 * BitOr(a \div 2, b \div 2)

\* u16 << n
Shl16(a, n) == (a * (2 ^ n)) % U16

\* u16 >> n
Shr(a, n) == a \div (2 ^ n)

-----------------------------------------------------------------------------
(* Memory and fetch. *)

\* self.memory[a] for an index inside the array
MemAt(a) == IF a \in DOMAIN memory THEN memory[a] ELSE 0

\* mutant: only memory[p] is checked, memory[p + 1] is read unchecked
FetchInBounds_first_byte_only == position_in_memory < MemSize

\* the two bounds checks of read_opcode: memory[p] and memory[p + 1]
FetchInBounds ==
    /\ position_in_memory < MemSize
    /\ position_in_memory + 1 < MemSize

\* mutant: the two bytes are composed low byte first
read_opcode_little_endian ==
    LET p == position_in_memory
        op_byte1 == MemAt(p)
        op_byte2 == MemAt(p + 1)
    IN  BitOr(Shl16(op_byte2, 8), op_byte1)

\* op_byte1 << 8 | op_byte2
read_opcode ==
    LET p == position_in_memory
        op_byte1 == MemAt(p)
        op_byte2 == MemAt(p + 1)
    IN  BitOr(Shl16(op_byte1, 8), op_byte2)

-----------------------------------------------------------------------------
(* Decode and dispatch. *)

\* mutant: the x and y nibbles are taken from each other's bits
Decode_xy_swapped(op) ==
    [ c   |-> Shr(BitAnd(op, 61440), 12) % U8,
      x   |-> Shr(BitAnd(op, 240), 4) % U8,
      y   |-> Shr(BitAnd(op, 3840), 8) % U8,
      d   |-> Shr(BitAnd(op, 15), 0) % U8,
      nnn |-> BitAnd(op, 4095),
      kk  |-> BitAnd(op, 255) ]

\* mutant: nnn is masked with 0x00FF, like kk
Decode_nnn_8bit(op) ==
    [ c   |-> Shr(BitAnd(op, 61440), 12) % U8,
      x   |-> Shr(BitAnd(op, 3840), 8) % U8,
      y   |-> Shr(BitAnd(op, 240), 4) % U8,
      d   |-> Shr(BitAnd(op, 15), 0) % U8,
      nnn |-> BitAnd(op, 255),
      kk  |-> BitAnd(op, 255) ]

\* mutant: d is masked with 0x00FF instead of 0x000F
Decode_d_unmasked(op) ==
    [ c   |-> Shr(BitAnd(op, 61440), 12) % U8,
      x   |-> Shr(BitAnd(op, 3840), 8) % U8,
      y   |-> Shr(BitAnd(op, 240), 4) % U8,
      d   |-> Shr(BitAnd(op, 255), 0) % U8,
      nnn |-> BitAnd(op, 4095),
      kk  |-> BitAnd(op, 255) ]

Decode(op) ==
    [ c   |-> Shr(BitAnd(op, 61440), 12) % U8,
      x   |-> Shr(BitAnd(op, 3840), 8) % U8,
      y   |-> Shr(BitAnd(op, 240), 4) % U8,
      d   |-> Shr(BitAnd(op, 15), 0) % U8,
      nnn |-> BitAnd(op, 4095),
      kk  |-> BitAnd(op, 255) ]

\* mutant: the HALT arm ignores x, so 0x0100 halts too
Dispatch_halt_any_x(c, x, y, d) ==
    IF <<c, y, d>> = <<0, 0, 0>> THEN "halt"
    ELSE IF <<c, x, y, d>> = <<0, 0, 14, 14>> THEN "ret"
    ELSE IF c = 2 THEN "call"
    ELSE IF c = 8 /\ d = 4 THEN "add_xy"
    ELSE "todo"

\* mutant: the ADD arm ignores d, so every 8xy_ word adds
Dispatch_add_any_d(c, x, y, d) ==
    IF <<c, x, y, d>> = <<0, 0, 0, 0>> THEN "halt"
    ELSE IF <<c, x, y, d>> = <<0, 0, 14, 14>> THEN "ret"
    ELSE IF c = 2 THEN "call"
    ELSE IF c = 8 THEN "add_xy"
    ELSE "todo"

\* the match of run() on (c, x, y, d), arms tried in order
Dispatch(c, x, y, d) ==
    IF <<c, x, y, d>> = <<0, 0, 0, 0>> THEN "halt"
    ELSE IF <<c, x, y, d>> = <<0, 0, 14, 14>> THEN "ret"
    ELSE IF c = 2 THEN "call"
    ELSE IF c = 8 /\ d = 4 THEN "add_xy"
    ELSE "todo"

-----------------------------------------------------------------------------
(* Handlers. *)

\* mutant: the sum saturates at 255 instead of wrapping
overflowing_add_saturating(arg1, arg2) ==
    [ val |-> IF arg1 + arg2 >= U8 THEN U8 - 1 ELSE arg1 + arg2,
      overflow |-> arg1 + arg2 >= U8 ]

\* u8::overflowing_add
overflowing_add(arg1, arg2) ==
    [ val |-> (arg1 + arg2) % U8, overflow |-> arg1 + arg2 >= U8 ]

\* mutant: the flag is written only when the addition overflows
add_xy_flag_only_set(regs, x, y) ==
    LET arg1 == regs[x]
        arg2 == regs[y]
        r == overflowing_add(arg1, arg2)
        written == [regs EXCEPT ![x] = r.val]
    IN  IF r.overflow
        THEN [written EXCEPT ![FlagRegister] = 1]
        ELSE written

\* mutant: the sum is stored in register y as well
add_xy_result_in_y(regs, x, y) ==
    LET arg1 == regs[x]
        arg2 == regs[y]
        r == overflowing_add(arg1, arg2)
        written == [[regs EXCEPT ![x] = r.val] EXCEPT ![y] = r.val]
    IN  IF r.overflow
        THEN [written EXCEPT ![FlagRegister] = 1]
        ELSE [written EXCEPT ![FlagRegister] = 0]

\* the register file add_xy leaves
add_xy(regs, x, y) ==
    LET arg1 == regs[x]
        arg2 == regs[y]
        r == overflowing_add(arg1, arg2)
        written == [regs EXCEPT ![x] = r.val]
    IN  IF r.overflow
        THEN [written EXCEPT ![FlagRegister] = 1]
        ELSE [written EXCEPT ![FlagRegister] = 0]

\* the explicit guard of call
CallGuardPanics(sp) == sp > StackSize

\* mutant: call stores the address of the CALL itself
ReturnAddress_of_call(pos) == (pos - 2) % U16

\* mutant: call stores the address after the next instruction
ReturnAddress_skips_next(pos) == (pos + 2) % U16

\* mutant: call stores the address of the second byte of the CALL
ReturnAddress_second_byte(pos) == (pos - 1) % U16

\* mutant: call stores position_in_memory as u8
ReturnAddress_as_u8(pos) == pos % U8

\* the value call stores: position_in_memory as u16
ReturnAddress(pos) == pos % U16

\* mutant: only the explicit guard protects the stack; the store at index
\* 16 lands outside the array and the stack pointer goes on to 17
call_guard_only(addr, pos) ==
    LET sp == stack_pointer IN
    IF CallGuardPanics(sp)
    THEN /\ status' = "Faulted"
         /\ fault' = "StackOverflow"
         /\ position_in_memory' = pos
         /\ UNCHANGED <<stack, stack_pointer, call_site, odd_call_taken>>
    ELSE /\ stack' = (sp :> ReturnAddress(pos)) @@ stack
         /\ stack_pointer' = sp + 1
         /\ position_in_memory' = addr
         /\ call_site' = (sp :> pos - 2) @@ call_site
         /\ odd_call_taken' = (odd_call_taken \/ addr % 2 = 1)
         /\ UNCHANGED <<status, fault>>

\* call(addr) with position_in_memory already advanced to pos
call(addr, pos) ==
    LET sp == stack_pointer IN
    IF CallGuardPanics(sp)
    THEN /\ status' = "Faulted"
         /\ fault' = "StackOverflow"
         /\ position_in_memory' = pos
         /\ UNCHANGED <<stack, stack_pointer, call_site, odd_call_taken>>
    ELSE IF ~(sp < StackSize)
    THEN /\ status' = "Faulted"
         /\ fault' = "StackIndexOutOfBounds"
         /\ position_in_memory' = pos
         /\ UNCHANGED <<stack, stack_pointer, call_site, odd_call_taken>>
    ELSE /\ stack' = [stack EXCEPT ![sp] = ReturnAddress(pos)]
         /\ stack_pointer' = sp + 1
         /\ position_in_memory' = addr
         /\ call_site' = [call_site EXCEPT ![sp] = pos - 2]
         /\ odd_call_taken' = (odd_call_taken \/ addr % 2 = 1)
         /\ UNCHANGED <<status, fault>>

\* the slot ret reads after decrementing the stack pointer
RetSlot(sp) == sp - 1

\* mutant: a RETURN on an empty stack is skipped and the run goes on
ret_ignoring_underflow(pos) ==
    IF stack_pointer = 0
    THEN /\ position_in_memory' = pos
         /\ UNCHANGED <<stack_pointer, status, fault>>
    ELSE /\ stack_pointer' = stack_pointer - 1
         /\ position_in_memory' = stack[RetSlot(stack_pointer)]
         /\ UNCHANGED <<status, fault>>

\* ret() with position_in_memory already advanced to pos
ret(pos) ==
    IF stack_pointer = 0
    THEN /\ status' = "Faulted"
         /\ fault' = "StackUnderflow"
         /\ position_in_memory' = pos
         /\ UNCHANGED <<stack_pointer>>
    ELSE /\ stack_pointer' = stack_pointer - 1
         /\ position_in_memory' = stack[RetSlot(stack_pointer)]
         /\ UNCHANGED <<status, fault>>

-----------------------------------------------------------------------------
(* One iteration of the loop of run(), one action per outcome. *)

\* mutant: the loop goes on after a panic
Running_after_fault == status # "Halted"

Running == status = "Running"

\* read_opcode panics on a memory index out of bounds
RunFetchPanic ==
    /\ Running
    /\ ~FetchInBounds
    /\ status' = "Faulted"
    /\ fault' = "OutOfBoundsFetch"
    /\ UNCHANGED <<registers, position_in_memory, memory, stack, stack_pointer,
                   opcode, init_registers, entry_point, call_site, odd_call_taken>>

\* (0, 0, 0, 0) => return
RunHalt ==
    /\ Running
    /\ FetchInBounds
    /\ \E w \in {read_opcode} : \E f \in {Decode(w)} :
         /\ Dispatch(f.c, f.x, f.y, f.d) = "halt"
         /\ opcode' = w
    /\ position_in_memory' = position_in_memory + 2
    /\ status' = "Halted"
    /\ UNCHANGED <<registers, memory, stack, stack_pointer, fault,
                   init_registers, entry_point, call_site, odd_call_taken>>

\* (0, 0, 0xE, 0xE) => self.ret()
RunRet ==
    /\ Running
    /\ FetchInBounds
    /\ \E w \in {read_opcode} : \E f \in {Decode(w)} :
         /\ Dispatch(f.c, f.x, f.y, f.d) = "ret"
         /\ opcode' = w
    /\ ret(position_in_memory + 2)
    /\ UNCHANGED <<registers, memory, stack, init_registers, entry_point, call_site, odd_call_taken>>

\* mutant: the CALL arm also spills the return address into the last two
\* bytes of memory
RunCall_return_address_in_memory ==
    /\ Running
    /\ FetchInBounds
    /\ \E w \in {read_opcode} : \E f \in {Decode(w)} :
         /\ Dispatch(f.c, f.x, f.y, f.d) = "call"
         /\ opcode' = w
         /\ call(f.nnn, position_in_memory + 2)
    /\ memory' = ((MemSize - 2) :> ((position_in_memory + 2) \div 256))
                  @@ ((MemSize - 1) :> ((position_in_memory + 2) % 256))
                  @@ memory
    /\ UNCHANGED <<registers, init_registers, entry_point>>

\* (0x2, _, _, _) => self.call(nnn)
RunCall ==
    /\ Running
    /\ FetchInBounds
    /\ \E w \in {read_opcode} : \E f \in {Decode(w)} :
         /\ Dispatch(f.c, f.x, f.y, f.d) = "call"
         /\ opcode' = w
         /\ call(f.nnn, position_in_memory + 2)
    /\ UNCHANGED <<registers, memory, init_registers, entry_point>>

\* (0x8, _, _, 0x4) => self.add_xy(x, y)
RunAdd ==
    /\ Running
    /\ FetchInBounds
    /\ \E w \in {read_opcode} : \E f \in {Decode(w)} :
         /\ Dispatch(f.c, f.x, f.y, f.d) = "add_xy"
         /\ opcode' = w
         /\ registers' = add_xy(registers, f.x, f.y)
    /\ position_in_memory' = position_in_memory + 2
    /\ UNCHANGED <<memory, stack, stack_pointer, status, fault,
                   init_registers, entry_point, call_site, odd_call_taken>>

\* _ => todo!("opcode {:04x}", opcode)
RunTodo ==
    /\ Running
    /\ FetchInBounds
    /\ \E w \in {read_opcode} : \E f \in {Decode(w)} :
         /\ Dispatch(f.c, f.x, f.y, f.d) = "todo"
         /\ opcode' = w
    /\ position_in_memory' = position_in_memory + 2
    /\ status' = "Faulted"
    /\ fault' = "UnimplementedOpcode"
    /\ UNCHANGED <<registers, memory, stack, stack_pointer,
                   init_registers, entry_point, call_site, odd_call_taken>>

-----------------------------------------------------------------------------
(* Program images and the machines the loader builds. *)

\* the bytes of a sequence of instruction words stored big-endian from base
Bytes(base, words) ==
    [ a \in base .. (base + 2 * Len(words) - 1) |->
        LET w == words[((a - base) \div 2) + 1] IN
        IF (a - base) % 2 = 0 THEN w \div 256 ELSE w % 256 ]

\* a register file that is 0 except where f says otherwise
RegFile(f) == [ i \in 0 .. (NumRegisters - 1) |-> IF i \in DOMAIN f THEN f[i] ELSE 0 ]

\* opcode 8xy4
AddWord(x, y) == 32772 + 256 * x + 16 * y

\* the image of main: 2100 2100 0000 at 0x000, 8014 8014 00EE at 0x100
MainImage == Bytes(0, <<8448, 8448, 0>>) @@ Bytes(256, <<32788, 32788, 238>>)

\* 8014 8024 8034 then zeroed memory
ChainImage == Bytes(0, <<32788, 32804, 32820>>)

\* CALL 0xFFE at 0 and ADD 0,1 in the last instruction slot
TailImage == Bytes(0, <<12286>>) @@ Bytes(MemSize - 2, <<32788>>)

\* words of the generated programs: HALT, RETURN, CALL 0, CALL 2, CALL 3,
\* CALL 4 and ADD 0,1
OpSamples == {0, 238, 8192, 8194, 8195, 8196, 32788}

Machine(mem, entry, regs) == [ memory |-> mem, entry |-> entry, registers |-> regs ]

MainLoads ==
    { Machine(MainImage, 0, RegFile(0 :> r0 @@ 1 :> r1)) : r0 \in ByteSamples, r1 \in ByteSamples }

ChainLoads ==
    { Machine(ChainImage, 0, RegFile(0 :> r[1] @@ 1 :> r[2] @@ 2 :> r[3] @@ 3 :> r[4])) :
        r \in [1 .. 4 -> ByteSamples] }

AddLoads ==
    { Machine(Bytes(0, <<AddWord(p[1], p[2]), AddWord(p[1], p[2])>>), 0,
              RegFile(p[2] :> p[4] @@ p[1] :> p[3])) :
        p \in (0 .. 15) \X (0 .. 15) \X AddSamples \X AddSamples }

WordLoads ==
    { Machine(Bytes(0, <<4096 * n[1] + 256 * n[2] + 16 * n[3] + n[4]>>), 0,
              RegFile(0 :> 200 @@ 1 :> 100)) :
        n \in NibbleSamples \X NibbleSamples \X NibbleSamples \X NibbleSamples }

ProgramLoads ==
    { Machine(Bytes(0, prog), entry, RegFile(0 :> 200 @@ 1 :> 100)) :
        prog \in [1 .. ProgLen -> OpSamples], entry \in {0, 2} }

EdgeLoads ==
    { Machine(TailImage, entry, RegFile(0 :> 200 @@ 1 :> 100)) :
        entry \in {0, 1, MemSize - 2, MemSize - 1, MemSize} }

\* CALL 0x000 in the slot before the last one: its return address is 0xFFE
HighCallImage == Bytes(MemSize - 4, <<8192>>)

HighCallLoads ==
    { Machine(HighCallImage, MemSize - 4, RegFile(0 :> 200 @@ 1 :> 100)) }

\* CALL nnn alone in memory, for every 12-bit operand
CallLoads ==
    { Machine(Bytes(0, <<8192 + nnn>>), 0, RegFile(0 :> 200 @@ 1 :> 100)) :
        nnn \in 0 .. 4095 }

Loads ==
    MainLoads \cup ChainLoads \cup AddLoads \cup WordLoads \cup ProgramLoads \cup EdgeLoads
        \cup HighCallLoads \cup CallLoads

-----------------------------------------------------------------------------

Init ==
    \E m \in Loads :
        /\ registers = m.registers
        /\ position_in_memory = m.entry
        /\ memory = m.memory
        /\ stack = [ i \in 0 .. (StackSize - 1) |-> 0 ]
        /\ stack_pointer = 0
        /\ opcode = NoOpcode
        /\ status = "Running"
        /\ fault = "None"
        /\ init_registers = m.registers
        /\ entry_point = m.entry
        /\ call_site = [ i \in 0 .. (StackSize - 1) |-> 0 ]
        /\ odd_call_taken = FALSE

Next ==
    \/ RunFetchPanic
    \/ RunHalt
    \/ RunRet
    \/ RunCall
    \/ RunAdd
    \/ RunTodo

Spec == Init /\ [][Next]_vars

\* run() is a plain loop: while it has not returned or panicked, it takes its next iteration
FairSpec == Spec /\ WF_vars(Next)

\* the machines whose memory holds one instruction word at 0, for every 16-bit word
AllWordsInit ==
    \E w \in 0 .. (U16 - 1) :
        /\ registers = RegFile(0 :> 200 @@ 1 :> 100)
        /\ position_in_memory = 0
        /\ memory = Bytes(0, <<w>>)
        /\ stack = [ i \in 0 .. (StackSize - 1) |-> 0 ]
        /\ stack_pointer = 0
        /\ opcode = NoOpcode
        /\ status = "Running"
        /\ fault = "None"
        /\ init_registers = RegFile(0 :> 200 @@ 1 :> 100)
        /\ entry_point = 0
        /\ call_site = [ i \in 0 .. (StackSize - 1) |-> 0 ]
        /\ odd_call_taken = FALSE

AllWordsSpec == AllWordsInit /\ [][Next]_vars

TypeOK ==
    /\ \A i \in 0 .. (NumRegisters - 1) : registers[i] \in 0 .. (U8 - 1)
    /\ position_in_memory \in Nat
    /\ \A i \in 0 .. (StackSize - 1) : stack[i] \in 0 .. (U16 - 1)
    /\ stack_pointer \in 0 .. StackSize
    /\ opcode = NoOpcode \/ opcode \in 0 .. (U16 - 1)
    /\ status \in {"Running", "Halted", "Faulted"}
    /\ fault \in {"None", "OutOfBoundsFetch", "StackOverflow", "StackIndexOutOfBounds",
                  "StackUnderflow", "UnimplementedOpcode"}
    /\ odd_call_taken \in BOOLEAN

-----------------------------------------------------------------------------
(* Vocabulary of the properties: the instruction encodings as the          *)
(* specification words them, read off the word about to be fetched.        *)

\* the loop is about to fetch word w
Fetching(w) == Running /\ FetchInBounds /\ read_opcode = w

\* w has the form 8xy4
IsAddWord(w) == w \div 4096 = 8 /\ w % 16 = 4

\* w has the form 2nnn
IsCallWord(w) == w \div 4096 = 2

\* the x and y of 8xy4
WordX(w) == (w \div 256) % 16

WordY(w) == (w \div 16) % 16

\* 00EE
ReturnWord == 238

\* the loop is about to execute an ADD
AddCycle == Running /\ FetchInBounds /\ IsAddWord(read_opcode)

\* the sum ADD is about to form, before wrapping
AddSum == registers[WordX(read_opcode)] + registers[WordY(read_opcode)]

\* the machine is as the loader left it: image mem, entry point 0, empty stack
Loaded(mem) ==
    /\ memory = mem
    /\ position_in_memory = 0
    /\ stack_pointer = 0
    /\ opcode = NoOpcode
    /\ status = "Running"

-----------------------------------------------------------------------------
\* C1 (as stated): for every x, y in 0..15, x = 15 included, ADD x,y leaves
\* registers[x] = (old registers[x] + old registers[y]) mod 256 and the run
\* does not fault.
C1_AddWrapsEveryX ==
    [][ AddCycle =>
          /\ registers'[WordX(read_opcode)] = AddSum % 256
          /\ status' = "Running" ]_vars

\* C1 (amended): for every x in 0..14 and y in 0..15, x = y and y = 15
\* included, ADD x,y leaves registers[x] = (old registers[x] + old
\* registers[y]) mod 256; for x = 15 register 15 holds the carry of the
\* addition instead of the sum; the run does not fault on overflow.
C1_AddWraps ==
    [][ AddCycle =>
          /\ WordX(read_opcode) # 15 => registers'[WordX(read_opcode)] = AddSum % 256
          /\ WordX(read_opcode) = 15 => registers'[15] = (IF AddSum > 255 THEN 1 ELSE 0)
          /\ status' = "Running" ]_vars

\* C1 witness: the first ADD x,y of a program, x # 15, has overflowed and
\* wrapped, and the run goes on.
C1_Witness ==
    /\ status = "Running"
    /\ opcode # NoOpcode
    /\ IsAddWord(opcode)
    /\ position_in_memory = 2
    /\ WordX(opcode) # 15
    /\ init_registers[WordX(opcode)] + init_registers[WordY(opcode)] > 255
    /\ registers[WordX(opcode)] =
         (init_registers[WordX(opcode)] + init_registers[WordY(opcode)]) % 256

\* C2: every ADD x,y sets registers[15] to 1 if old registers[x] + old
\* registers[y] > 255 and to 0 otherwise, whatever the flag held before.
C2_FlagAlwaysWritten ==
    [][ AddCycle => registers'[15] = (IF AddSum > 255 THEN 1 ELSE 0) ]_vars

\* C2 witness: ADD 0,1 ran twice from registers 255 and 1; the first ADD
\* overflowed (flag 1), the second did not and has cleared the flag.
C2_Witness ==
    /\ status = "Running"
    /\ opcode = AddWord(0, 1)
    /\ position_in_memory = 4
    /\ init_registers[0] = 255
    /\ init_registers[1] = 1
    /\ registers[0] = 1
    /\ registers[15] = 0

C4_CallAtCapacityIsStackOverflow ==
    [][ (Running /\ FetchInBounds /\ IsCallWord(read_opcode)) =>
          IF stack_pointer < 16
          THEN status' = "Running" /\ stack_pointer' = stack_pointer + 1
          ELSE /\ status' = "Faulted"
               /\ fault' = "StackOverflow"
               /\ stack' = stack
               /\ stack_pointer' = 16 ]_vars

\* C5: a RETURN executed with stack height 0 ends the run in the
\* StackUnderflow fault; stack_pointer stays 0, registers and stack are
\* unchanged.
C5_ReturnOnEmptyStackUnderflows ==
    [][ (Fetching(ReturnWord) /\ stack_pointer = 0) =>
          /\ status' = "Faulted"
          /\ fault' = "StackUnderflow"
          /\ stack_pointer' = 0
          /\ registers' = registers
          /\ stack' = stack ]_vars

\* C5 witness: the run ended in StackUnderflow after an earlier CALL had
\* been returned from (its return address is still in slot 0).
C5_Witness ==
    /\ status = "Faulted"
    /\ fault = "StackUnderflow"
    /\ stack_pointer = 0
    /\ stack[0] = call_site[0] + 2
    /\ stack[0] >= 2

\* C6: the image of main, started at 0 with an empty stack, halts normally
\* with registers[0] = (r0 + 4 * r1) mod 256, stack height 0 and register 1
\* unchanged, for every initial r0 and r1.
C6_MainProgram ==
    Loaded(MainImage) ~>
        /\ status = "Halted"
        /\ memory = MainImage
        /\ registers[0] = (init_registers[0] + 4 * init_registers[1]) % 256
        /\ registers[1] = init_registers[1]
        /\ stack_pointer = 0

\* C6 witness: main's own run, r0 = 5 and r1 = 10, has halted with 45.
C6_Witness ==
    /\ status = "Halted"
    /\ memory = MainImage
    /\ init_registers[0] = 5
    /\ init_registers[1] = 10
    /\ registers[0] = 45

\* C7: the program 8014 8024 8034 0000 halts with registers[0] =
\* (r0 + r1 + r2 + r3) mod 256 and registers[15] the overflow of the last
\* ADD only.
C7_ChainProgram ==
    Loaded(ChainImage) ~>
        /\ status = "Halted"
        /\ memory = ChainImage
        /\ registers[0] = (init_registers[0] + init_registers[1]
                           + init_registers[2] + init_registers[3]) % 256
        /\ registers[15] =
             (IF ((init_registers[0] + init_registers[1] + init_registers[2]) % 256)
                    + init_registers[3] > 255
              THEN 1 ELSE 0)

\* C7 witness: registers 5, 10, 10, 10 give 35 with the flag clear.
C7_Witness ==
    /\ status = "Halted"
    /\ memory = ChainImage
    /\ init_registers[0] = 5
    /\ init_registers[1] = 10
    /\ init_registers[2] = 10
    /\ init_registers[3] = 10
    /\ registers[0] = 35
    /\ registers[15] = 0

\* C8: a fetched word 0x0000 ends the run normally in that cycle with the
\* registers, the stack and the stack pointer unchanged, and a run ends
\* normally only on a fetched word 0x0000.
C8_HaltOnlyOnZeroWord ==
    [][ /\ Fetching(0) =>
              /\ status' = "Halted"
              /\ registers' = registers
              /\ stack' = stack
              /\ stack_pointer' = stack_pointer
        /\ (status # "Halted" /\ status' = "Halted") => Fetching(0) ]_vars

\* C8 witness: a run has halted inside a subroutine, after an ADD that
\* overflowed: registers and stack hold what the earlier cycles left.
C8_Witness ==
    /\ status = "Halted"
    /\ opcode = 0
    /\ stack_pointer > 0
    /\ registers[15] = 1

\* the four patterns the dispatch table recognises
Recognised(w) == w = 0 \/ w = ReturnWord \/ IsCallWord(w) \/ IsAddWord(w)

\* C9: every fetched word other than 0x0000, 0x00EE, 0x2nnn and 0x8xy4 ends
\* the run in the UnimplementedOpcode fault carrying that word, with the
\* registers, the stack and the stack pointer unchanged.
C9_UnrecognisedWordFaults ==
    [][ (Running /\ FetchInBounds /\ ~Recognised(read_opcode)) =>
          /\ status' = "Faulted"
          /\ fault' = "UnimplementedOpcode"
          /\ opcode' = read_opcode
          /\ registers' = registers
          /\ stack' = stack
          /\ stack_pointer' = stack_pointer ]_vars

\* C9 witness: the word 0x8010 (class 8, sub-selector 0) has ended the run
\* in UnimplementedOpcode.
C9_Witness ==
    /\ status = "Faulted"
    /\ fault = "UnimplementedOpcode"
    /\ opcode = 32784
    /\ registers = init_registers

\* C10: a fetch at p >= 4095 ends the run in the OutOfBoundsFetch fault; no
\* instruction is dispatched in that cycle (no word is fetched, the program
\* counter is not advanced, no register or stack slot changes), and every
\* cycle that does fetch reads only addresses 0..4095.
C10_FetchPastEndFaults ==
    [][ /\ (Running /\ position_in_memory >= 4095) =>
              /\ status' = "Faulted"
              /\ fault' = "OutOfBoundsFetch"
              /\ opcode' = opcode
              /\ position_in_memory' = position_in_memory
              /\ registers' = registers
              /\ stack' = stack
              /\ stack_pointer' = stack_pointer
        /\ (Running /\ fault' # "OutOfBoundsFetch") =>
              {position_in_memory, position_in_memory + 1} \subseteq 0 .. 4095 ]_vars

\* C10 witness: CALL 0xFFF has put the program counter on the last byte of
\* memory and the next fetch has faulted.
C10_Witness ==
    /\ status = "Faulted"
    /\ fault = "OutOfBoundsFetch"
    /\ position_in_memory = 4095
    /\ opcode = 12287

-----------------------------------------------------------------------------
\* the 12-bit operand of 2nnn
WordNNN(w) == w % 4096

C12_DecodeInvertible ==
    opcode # NoOpcode =>
        LET f == Decode(opcode) IN
        /\ {f.c, f.x, f.y, f.d} \subseteq 0 .. 15
        /\ 4096 * f.c + 256 * f.x + 16 * f.y + f.d = opcode
        /\ f.nnn = 256 * f.x + 16 * f.y + f.d
        /\ f.kk = 16 * f.y + f.d

\* C12 witness: the word 0xABCD, four different nibbles, has been fetched
\* and decoded.
C12_Witness ==
    /\ opcode = 43981
    /\ status = "Faulted"
    /\ fault = "UnimplementedOpcode"

\* C13: every fetch at p with p + 1 in bounds yields memory[p] * 256 +
\* memory[p + 1]; no cycle changes a memory byte, and a cycle whose handler
\* does nothing (HALT, unimplemented opcode) changes no register, stack slot
\* or stack pointer and leaves the program counter at p + 2, the loop's own
\* advance: the fetch has changed nothing.
C13_FetchBigEndianAndPure ==
    [][ (Running /\ FetchInBounds) =>
          /\ opcode' = 256 * MemAt(position_in_memory) + MemAt(position_in_memory + 1)
          /\ memory' = memory
          /\ (status' = "Halted" \/ fault' = "UnimplementedOpcode") =>
                /\ registers' = registers
                /\ stack' = stack
                /\ stack_pointer' = stack_pointer
                /\ position_in_memory' = position_in_memory + 2 ]_vars

\* C13 witness: the word 0x8014 has been fetched from the bytes 0x80, 0x14.
C13_Witness ==
    /\ status = "Running"
    /\ opcode = 32788
    /\ position_in_memory >= 2
    /\ MemAt(position_in_memory - 2) = 128
    /\ MemAt(position_in_memory - 1) = 20

\* C14: once the run has halted or faulted, nothing changes any more: no
\* word is fetched, no register, stack slot, stack pointer or program
\* counter changes.
C14_HaltedAndFaultedAreTerminal ==
    [][ status # "Running" =>
          /\ status' = status
          /\ fault' = fault
          /\ opcode' = opcode
          /\ registers' = registers
          /\ stack' = stack
          /\ stack_pointer' = stack_pointer
          /\ position_in_memory' = position_in_memory ]_vars

\* C14 witness: the run has ended in StackUnderflow with an ADD instruction
\* waiting at the program counter, which is never executed.
C14_Witness ==
    /\ status = "Faulted"
    /\ fault = "StackUnderflow"
    /\ FetchInBounds
    /\ IsAddWord(read_opcode)

\* C15: in every reachable state of a run started with an empty stack the
\* stack pointer lies in 0 .. 16, and the stack keeps exactly its slots
\* 0 .. 15: no store creates a slot outside them.
C15_StackPointerInRange ==
    /\ stack_pointer \in 0 .. 16
    /\ DOMAIN stack = 0 .. 15

\* C15 witness: sixteen nested calls have succeeded, the stack is full and
\* the run goes on.
C15_Witness ==
    /\ status = "Running"
    /\ stack_pointer = 16
    /\ \A i \in 0 .. 15 : stack[i] = call_site[i] + 2

\* the program counter and every live stack entry are even
Even(n) == n % 2 = 0

\* C16 as stated: in a run started at an even entry point the program
\* counter is even at every fetch, CALL instructions with an odd operand
\* included.
C16_CounterAlwaysEven ==
    (Even(entry_point) /\ Running) => Even(position_in_memory)

\* C16 amended: in a run started at an even entry point the program counter
\* is even at every fetch as long as no CALL with an odd operand has been
\* executed; right after a CALL with an odd operand nnn has been executed
\* the program counter is the odd address nnn.
C16_CounterEvenUntilOddCall ==
    /\ (Even(entry_point) /\ Running /\ ~odd_call_taken) => Even(position_in_memory)
    /\ (Running /\ opcode # NoOpcode /\ IsCallWord(opcode) /\ ~Even(WordNNN(opcode)))
          => (odd_call_taken /\ position_in_memory = WordNNN(opcode))

\* C16 witness: from entry point 0 a CALL with the even operand 4 and the
\* RET after it have been executed, and the next fetch is at the even
\* address 2.
C16_Witness ==
    /\ entry_point = 0
    /\ ~odd_call_taken
    /\ status = "Running"
    /\ opcode = ReturnWord
    /\ call_site[0] = 0
    /\ stack[0] = 2
    /\ stack_pointer = 0
    /\ position_in_memory = 2

\* C17: a cycle that executes ADD 8xy4 at address A changes registers[x],
\* registers[15] and the program counter only: every other register, the
\* stack, the stack pointer and memory keep their values, and the program
\* counter becomes A + 2.
C17_AddFrame ==
    [][ AddCycle =>
          /\ \A i \in 0 .. 15 :
                (i # WordX(read_opcode) /\ i # 15) => registers'[i] = registers[i]
          /\ stack' = stack
          /\ stack_pointer' = stack_pointer
          /\ memory' = memory
          /\ position_in_memory' = position_in_memory + 2
          /\ status' = "Running" ]_vars

\* C17 witness: the first ADD 8014 of the chain program has run on
\* registers 5, 10, 10, 10: register 0 is 15, registers 1, 2 and 3 still
\* hold 10, and the program counter is 2.
C17_Witness ==
    /\ status = "Running"
    /\ opcode = 32788
    /\ memory = ChainImage
    /\ position_in_memory = 2
    /\ registers[0] = 15
    /\ registers[1] = 10
    /\ registers[2] = 10
    /\ registers[3] = 10
    /\ registers[15] = 0

\* C18: every run terminates: it halts or it faults.
C18_EveryRunTerminates == <>(status # "Running")

\* C18 witness: a run that calls itself at address 0 has ended after
\* sixteen nested calls.
C18_Witness ==
    /\ status = "Faulted"
    /\ stack_pointer = 16
    /\ opcode = 8192
    /\ position_in_memory = 2

\* C19: in a run whose entry point lies in 0 .. 4094 the program counter
\* never exceeds 4096, and every live stack entry is the untruncated A + 2
\* of a CALL at an address A whose first byte has the high nibble 2.
C19_CounterAndStackEntriesBounded ==
    entry_point \in 0 .. (MemSize - 2) =>
        /\ position_in_memory <= MemSize
        /\ \A i \in 0 .. (stack_pointer - 1) :
              /\ stack[i] = call_site[i] + 2
              /\ call_site[i] \in 0 .. (MemSize - 2)
              /\ MemAt(call_site[i]) \div 16 = 2

\* C19 witness: the CALL in the last but one word of memory has stored the
\* return address 4094.
C19_Witness ==
    /\ entry_point = MemSize - 4
    /\ stack_pointer = 1
    /\ call_site[0] = MemSize - 4
    /\ stack[0] = MemSize - 2

\* C20: no step of the run writes memory, and a cycle that executes CALL or
\* RET leaves all sixteen registers unchanged.
C20_MemoryAndRegistersPreserved ==
    [][ /\ memory' = memory
        /\ (Running /\ FetchInBounds
              /\ (IsCallWord(read_opcode) \/ read_opcode = ReturnWord))
             => registers' = registers ]_vars

\* C20 witness: the main program has run its two calls and the return of
\* the second: memory is the loaded image still and the registers hold
\* their values of before the return.
C20_Witness ==
    /\ memory = MainImage
    /\ status = "Running"
    /\ opcode = ReturnWord
    /\ stack_pointer = 0
    /\ position_in_memory = 4
    /\ registers[1] = 10

====
